---- MODULE Spec2Model ----
(***************************************************************************)
(* micro-di: the resolver registry (RegisterResolver, OverrideResolver,    *)
(* RegisterSingleton, OverrideSingleton, Resolve, Transform), the          *)
(* constructor injectors (Inject, MapInject, Construct) and the injected   *)
(* property getters, as a state machine with one action per API call.     *)
(***************************************************************************)
EXTENDS Integers, Sequences, FiniteSets, TLC

VARIABLES
    resolvers,            \* own properties set on the `resolvers` object, by name
    dependencyResolver,   \* own $dependencyResolver of each class prototype
    dependencyInjectors,  \* own $dependencyInjectors of each class prototype
    externalName,         \* the value a lazy (function) bound argument reads
    property,             \* the injected property declared on the subject class
    decorated,            \* per class: the injector declared on each own parameter
    access,               \* history of the reads of the injected property
    classDecorator,       \* per class: the class decorator that was applied first
    nextId,               \* identity of the next object a resolver constructs
    ops,                  \* number of API calls made so far
    last,                 \* the last API call: its arguments, outcome and trace
    hist                  \* per token: history of the API calls made on it

vars == <<resolvers, dependencyResolver, dependencyInjectors, externalName,
          property, decorated, access, classDecorator, nextId, ops, last, hist>>

----------------------------------------------------------------------------
(* Bounds *)

MaxOps == 4

MaxDeepOps == 5

MaxConstructOps == 4

MaxPropertyOps == 4

MaxClassOps == 4
MaxNestedOps == 4
MaxTokenOps == 3
MaxInstanceOps == 6
MaxInstances == 2

----------------------------------------------------------------------------
(* Tokens, resolvers and values *)

Name(n) == [kind |-> "name", id |-> n]

Type(c) == [kind |-> "type", id |-> c]

\* "A" is a name token spelled like the class A
NameIds == {"svc", "toString", "A"}

\* class B extends A; X and Y extends X are the classes built by Construct
TypeIds == {"A", "B", "X", "Y"}

SuperOf(c) == IF c = "B" THEN "A" ELSE IF c = "Y" THEN "X" ELSE "Object"

Constructables == {"X", "Y"}

\* design:paramtypes of the constructor (name: string, dependency: A)
ParamTypes(c) == <<Type("String"), Type("A")>>

\* members every Map object inherits from Map.prototype / Object.prototype
MapMembers == {"toString"}

RegTokens == {Name("svc"), Name("toString"), Type("A"), Type("B")}

\* the user supplied resolver functions
Resolvers == {"r1", "r2"}

ArgLists == {<<>>, <<"a">>}

\* the bound argument () => externalName
LazyArg == "() => externalName"

ExternalNames == {"Initial", "That name!"}

\* the argument lists bound by a decorator
BoundArgLists == {<<>>, <<LazyArg>>}

\* the transform d => d.name
Maps == {"name"}

Undefined == [kind |-> "undefined"]

\* a user supplied resolver function
Fn(r) == [kind |-> "resolver", r |-> r]

\* () => instance
Const(instance) == [kind |-> "instance", inst |-> instance]

\* (...args) => Construct(target, ...args)
Forward(target) == [kind |-> "construct", target |-> target]

\* a function found on the prototype chain of the `resolvers` Map object
Builtin(m) == [kind |-> "builtin", name |-> m]

\* what Object.prototype.toString returns when called without a receiver
ObjectUndefined == [id |-> 0, by |-> "Object.prototype.toString", args |-> <<>>]

UnregisteredTokenError(token) == [err |-> "unregistered", token |-> token]

ResolverError(r) == [err |-> "resolver", r |-> r]

TransformError(m) == [err |-> "transform", map |-> m]

\* what the transform m returns for the object v
Mapped(m, v) == [mapped |-> m, of |-> v]

\* a $dependencyInjectors array
Array(items) == [kind |-> "array", items |-> items]

Returned(s, v) == [s |-> s, out |-> "value", val |-> v]

Thrown(s, e) == [s |-> s, out |-> "throw", val |-> e]

----------------------------------------------------------------------------
(* The registry: GetResolver / SetResolver and the four registration calls. *)
(* A registry state s is a record of the stores the calls read and write;   *)
(* every operator returns the state it leaves behind.                       *)

\* token.prototype.$dependencyResolver: a property read, so the prototype
\* chain of the class is searched from the class upwards
RECURSIVE ProtoResolver(_, _)
ProtoResolver(dr, c) ==
    IF c \notin DOMAIN dr THEN Undefined
    ELSE IF dr[c] # Undefined THEN dr[c]
    ELSE ProtoResolver(dr, SuperOf(c))

\* resolvers[token]: a property read on a Map object, so an own property
\* first and the members inherited by every Map object next
MapProperty(own, n) ==
    IF own[n] # Undefined THEN own[n]
    ELSE IF n \in MapMembers THEN Builtin(n)
    ELSE Undefined

GetResolver(s, token) ==
    IF token.kind = "name"
    THEN MapProperty(s.resolvers, token.id)
    ELSE ProtoResolver(s.dependencyResolver, token.id)

\* a store keyed by the spelling of the token: a name spelled like a class
\* shares the entry of the class
SetResolver_BySpelling(s, token, resolver) ==
    IF token.kind = "name" /\ token.id \notin TypeIds
    THEN [s EXCEPT !.resolvers[token.id] = resolver]
    ELSE [s EXCEPT !.dependencyResolver[token.id] = resolver]

SetResolver(s, token, resolver) ==
    IF token.kind = "name"
    THEN [s EXCEPT !.resolvers[token.id] = resolver]
    ELSE [s EXCEPT !.dependencyResolver[token.id] = resolver]

\* a registration that does not look for an existing entry
RegisterResolver_Unguarded(s, token, resolver) == SetResolver(s, token, resolver)

RegisterResolver(s, token, resolver) ==
    IF GetResolver(s, token) = Undefined
    THEN SetResolver(s, token, resolver)
    ELSE s

\* an override that gives way to an existing entry
OverrideResolver_IfAbsent(s, token, resolver) ==
    IF GetResolver(s, token) = Undefined
    THEN SetResolver(s, token, resolver)
    ELSE s

\* an override that removes the entry
OverrideResolver_Clearing(s, token, resolver) == SetResolver(s, token, Undefined)

OverrideResolver(s, token, resolver) == SetResolver(s, token, resolver)

\* the closure (...args) => { instance = resolve(...args); OverrideResolver(token, () => instance) }
ResolveOnce(token, resolve) == [kind |-> "once", token |-> token, resolve |-> resolve]

\* a singleton registration that does not look for an existing entry
RegisterSingleton_Unguarded(s, token, resolver) ==
    SetResolver(s, token, ResolveOnce(token, resolver))

RegisterSingleton(s, token, resolver) ==
    IF GetResolver(s, token) = Undefined
    THEN SetResolver(s, token, ResolveOnce(token, resolver))
    ELSE s

OverrideSingleton(s, token, resolver) ==
    SetResolver(s, token, ResolveOnce(token, resolver))

----------------------------------------------------------------------------
(* Resolution.  `bad` is the set of user functions that throw when they are *)
(* called during this API call.                                             *)

\* a user supplied resolver r whose body, before it returns a new object,
\* calls op(token, inner) with op OverrideResolver or OverrideSingleton
Nesting(r, op, token, inner) ==
    [kind |-> "nesting", r |-> r, op |-> op, token |-> token, inner |-> inner]

\* a call of the user supplied resolver r: it constructs a new object
CallResolver(s, r, args, bad) ==
    LET t == [s EXCEPT !.trace = Append(@, [call |-> r, args |-> args])]
    IN  IF r \in bad
        THEN Thrown(t, ResolverError(r))
        ELSE Returned([t EXCEPT !.nextId = @ + 1],
                      [id |-> s.nextId, by |-> r, args |-> args])

\* a call of a function found on the Map object, without a receiver
CallBuiltin(s, m) ==
    IF m = "toString"
    THEN Returned(s, ObjectUndefined)
    ELSE Thrown(s, [err |-> "TypeError"])

\* resolve(...args) for a function value stored in the registry
\* Resolve, the functions it calls and Construct call one another
RECURSIVE Resolve(_, _, _, _)
RECURSIVE Construct(_, _, _, _)

\* a singleton closure that stores what its resolver threw as well
RECURSIVE Invoke_Eager(_, _, _, _)
Invoke_Eager(s, fn, args, bad) ==
    CASE fn.kind = "resolver" -> CallResolver(s, fn.r, args, bad)
      [] fn.kind = "construct" -> Construct(s, fn.target, args, bad)
      [] fn.kind = "nesting"  ->
            LET t == [s EXCEPT
                        !.trace = Append(@, [call |-> fn.r, args |-> args]),
                        !.nested = Append(@, [op |-> fn.op, token |-> fn.token,
                                              r |-> fn.inner])]
                u == IF fn.op = "OverrideResolver"
                     THEN OverrideResolver(t, fn.token, Fn(fn.inner))
                     ELSE OverrideSingleton(t, fn.token, Fn(fn.inner))
            IN  Returned([u EXCEPT !.nextId = @ + 1],
                         [id |-> s.nextId, by |-> fn.r, args |-> args])
      [] fn.kind = "instance" -> Returned(s, fn.inst)
      [] fn.kind = "builtin"  -> CallBuiltin(s, fn.name)
      [] fn.kind = "once"     ->
            LET res == Invoke_Eager(s, fn.resolve, args, bad)
            IN  IF res.out = "throw"
                THEN Thrown(OverrideResolver(res.s, fn.token, Const(res.val)),
                            res.val)
                ELSE Returned(OverrideResolver(res.s, fn.token, Const(res.val)),
                              res.val)

RECURSIVE Invoke(_, _, _, _)
Invoke(s, fn, args, bad) ==
    CASE fn.kind = "resolver" -> CallResolver(s, fn.r, args, bad)
      [] fn.kind = "construct" -> Construct(s, fn.target, args, bad)
      [] fn.kind = "nesting"  ->
            LET t == [s EXCEPT
                        !.trace = Append(@, [call |-> fn.r, args |-> args]),
                        !.nested = Append(@, [op |-> fn.op, token |-> fn.token,
                                              r |-> fn.inner])]
                u == IF fn.op = "OverrideResolver"
                     THEN OverrideResolver(t, fn.token, Fn(fn.inner))
                     ELSE OverrideSingleton(t, fn.token, Fn(fn.inner))
            IN  Returned([u EXCEPT !.nextId = @ + 1],
                         [id |-> s.nextId, by |-> fn.r, args |-> args])
      [] fn.kind = "instance" -> Returned(s, fn.inst)
      [] fn.kind = "builtin"  -> CallBuiltin(s, fn.name)
      [] fn.kind = "once"     ->
            LET res == Invoke(s, fn.resolve, args, bad)
            IN  IF res.out = "throw"
                THEN res
                ELSE Returned(OverrideResolver(res.s, fn.token, Const(res.val)),
                              res.val)

\* throw Error(`Trying to resolve unregistered token: ...`)
Raised(s, e) == Thrown([s EXCEPT !.raised = Append(@, e)], e)

\* a resolution that caches what the resolver returned
Resolve_Caching(s, token, args, bad) ==
    LET resolve == GetResolver(s, token)
    IN  IF resolve # Undefined
        THEN Invoke(s, ResolveOnce(token, resolve), args, bad)
        ELSE Raised(s, UnregisteredTokenError(token))

Resolve(s, token, args, bad) ==
    LET resolve == GetResolver(s, token)
    IN  IF resolve # Undefined
        THEN Invoke(s, resolve, args, bad)
        ELSE Raised(s, UnregisteredTokenError(token))

----------------------------------------------------------------------------
(* The state machine of the registry API: one action per call.             *)

NoInst == [id |-> -1, by |-> "-", args |-> <<>>]

\* the stores as the record the operators above work on
Stores == [resolvers |-> resolvers, dependencyResolver |-> dependencyResolver,
           dependencyInjectors |-> dependencyInjectors,
           externalName |-> externalName, nextId |-> nextId, trace |-> <<>>,
           resolved |-> <<>>, built |-> <<>>, transformed |-> <<>>,
           raised |-> <<>>, nested |-> <<>>]

\* the function stored for the token itself (no prototype chain, no Map member)
OwnEntry(s, token) ==
    IF token.kind = "name" THEN s.resolvers[token.id]
    ELSE s.dependencyResolver[token.id]

\* touched: a register/override call was made on the token;
\* op, r: the last registration call that was to store a function for the token
\*        (an override call, or a register call made while it had no entry);
\* wrote: that call left its function in the token's own store;
\* again: a later register call with another resolver was made on the token;
\* prev: the instance memoized for the token when that call was made;
\* inst, firstArgs: the value, and the arguments, of the first successful
\*        Resolve of the token since that call;
\* resolves, calls: the Resolve calls made on the token since that call and
\*        the resolver invocations made during them
NoHist == [touched |-> FALSE, op |-> "none", r |-> "-", wrote |-> FALSE,
           again |-> FALSE, prev |-> NoInst, inst |-> NoInst,
           firstArgs |-> <<>>, resolves |-> 0, calls |-> 0]

\* the reads of the injected property since its decorator was applied:
\* reads: the reads made; resolves, invoked, transforms: the Resolve calls,
\* resolver invocations and transform invocations made during them;
\* plain: every read so far found a plain resolver as the token's own entry;
\* value: what the first successful read returned;
\* late: the reads made after the first successful read; lateWork: the
\* Resolve calls, resolver invocations and transform invocations during them;
\* reader: the instance the last read was made through; by: the instance of
\* the first successful read; born: the instances that existed at that read
NoAccess == [decorator |-> "none", reads |-> 0, resolves |-> 0, invoked |-> 0,
             transforms |-> 0, plain |-> TRUE, value |-> NoInst,
             late |-> 0, lateWork |-> 0, reader |-> 0, by |-> 0, born |-> 0]

\* history of a registration call `op` made on `token` with user resolver r,
\* which left the stores s2 behind and was meant to store the function fn
Registered(op, token, r, fn, s2) ==
    LET h   == hist[token]
        old == OwnEntry(Stores, token)
        takes == op \in {"OverrideResolver", "OverrideSingleton"} \/ old = Undefined
    IN  [hist EXCEPT ![token] =
            IF takes
            THEN [touched |-> TRUE, op |-> op, r |-> r,
                  wrote |-> OwnEntry(s2, token) = fn, again |-> FALSE,
                  prev |-> IF old.kind = "instance" THEN old.inst ELSE NoInst,
                  inst |-> NoInst, firstArgs |-> <<>>, resolves |-> 0, calls |-> 0]
            ELSE [h EXCEPT !.touched = TRUE, !.again = @ \/ r # h.r]]

CommitStores(s2) ==
    /\ resolvers' = s2.resolvers
    /\ dependencyResolver' = s2.dependencyResolver
    /\ dependencyInjectors' = s2.dependencyInjectors
    /\ externalName' = s2.externalName
    /\ nextId' = s2.nextId

\* the record of an API call: what was called and, once Outcome is applied,
\* how it ended, the resolver invocations (trace), the Resolve calls made on
\* behalf of injectors (resolved), the constructor invocations (built) and
\* the transform invocations (transformed) it made, the unregistered-token
\* errors Resolve raised during it (raised), and whether it left the
\* registry and the injectors as they were; nested are the registry calls
\* made by resolvers while the call ran; target and index are the class
\* and the parameter a parameter decorator was applied to; bad are the
\* functions that throw during a Transform call
Call(op, token, r, args) ==
    [op |-> op, token |-> token, r |-> r, args |-> args, out |-> "value",
     val |-> NoInst, trace |-> <<>>, first |-> FALSE, resolved |-> <<>>,
     built |-> <<>>, transformed |-> <<>>, raised |-> <<>>, same |-> TRUE,
     target |-> "-", index |-> 0, bad |-> {}, nested |-> <<>>]

Outcome(call, res) ==
    [call EXCEPT !.out = res.out, !.val = res.val, !.trace = res.s.trace,
                 !.resolved = res.s.resolved, !.built = res.s.built,
                 !.transformed = res.s.transformed, !.raised = res.s.raised,
                 !.nested = res.s.nested,
                 !.same = /\ res.s.resolvers = resolvers
                          /\ res.s.dependencyResolver = dependencyResolver
                          /\ res.s.dependencyInjectors = dependencyInjectors]

Registration(op, token, r, fn, s2) ==
    /\ ops' = ops + 1
    /\ CommitStores(s2)
    /\ hist' = Registered(op, token, r, fn, s2)
    /\ last' = Call(op, token, r, <<>>)
    /\ UNCHANGED <<property, decorated, access, classDecorator>>

DoRegisterResolver(token, r) ==
    Registration("RegisterResolver", token, r, Fn(r),
                 RegisterResolver(Stores, token, Fn(r)))

DoOverrideResolver(token, r) ==
    Registration("OverrideResolver", token, r, Fn(r),
                 OverrideResolver(Stores, token, Fn(r)))

DoRegisterSingleton(token, r) ==
    Registration("RegisterSingleton", token, r, ResolveOnce(token, Fn(r)),
                 RegisterSingleton(Stores, token, Fn(r)))

DoOverrideSingleton(token, r) ==
    Registration("OverrideSingleton", token, r, ResolveOnce(token, Fn(r)),
                 OverrideSingleton(Stores, token, Fn(r)))

\* history of a Resolve(token, args) call with result res
Resolved(token, args, res) ==
    LET h == hist[token]
        first == res.out = "value" /\ h.inst = NoInst
    IN  [hist EXCEPT ![token] =
            [h EXCEPT !.inst = IF first THEN res.val ELSE @,
                      !.firstArgs = IF first THEN args ELSE @,
                      !.resolves = @ + 1,
                      !.calls = @ + Len(res.s.trace)]]

DoResolve(token, args, bad) ==
    LET res == Resolve(Stores, token, args, bad)
    IN  /\ ops' = ops + 1
        /\ CommitStores(res.s)
        /\ hist' = Resolved(token, args, res)
        /\ last' = [Outcome(Call("Resolve", token, "-", args), res) EXCEPT
                        !.first = res.out = "value" /\ hist[token].inst = NoInst]
        /\ UNCHANGED <<property, decorated, access, classDecorator>>

Init ==
    /\ resolvers = [n \in NameIds |-> Undefined]
    /\ dependencyResolver = [c \in TypeIds |-> Undefined]
    /\ dependencyInjectors = [c \in TypeIds |-> Undefined]
    /\ externalName = "Initial"
    /\ property = Undefined
    /\ decorated = [c \in Constructables |-> [i \in 0..1 |-> Undefined]]
    /\ access = NoAccess
    /\ classDecorator = [c \in Constructables |-> "none"]
    /\ nextId = 1
    /\ ops = 0
    /\ last = Call("none", Name("svc"), "-", <<>>)
    /\ hist = [t \in RegTokens |-> NoHist]

Next ==
    \/ \E token \in RegTokens, r \in Resolvers :
          ops < MaxOps /\ DoRegisterResolver(token, r)
    \/ \E token \in RegTokens, r \in Resolvers :
          ops < MaxOps /\ DoOverrideResolver(token, r)
    \/ \E token \in RegTokens, r \in Resolvers :
          ops < MaxOps /\ DoRegisterSingleton(token, r)
    \/ \E token \in RegTokens, r \in Resolvers :
          ops < MaxOps /\ DoOverrideSingleton(token, r)
    \/ \E token \in RegTokens, args \in ArgLists, bad \in {{}, Resolvers} :
          ops < MaxOps /\ DoResolve(token, args, bad)

Spec == Init /\ [][Next]_vars

\* longer runs of calls, on the class tokens alone
ClassTokens == {Type("A"), Type("B")}

NextDeep ==
    \/ \E token \in ClassTokens, r \in Resolvers :
          ops < MaxDeepOps /\ DoRegisterResolver(token, r)
    \/ \E token \in ClassTokens, r \in Resolvers :
          ops < MaxDeepOps /\ DoOverrideResolver(token, r)
    \/ \E token \in ClassTokens, r \in Resolvers :
          ops < MaxDeepOps /\ DoRegisterSingleton(token, r)
    \/ \E token \in ClassTokens, r \in Resolvers :
          ops < MaxDeepOps /\ DoOverrideSingleton(token, r)
    \/ \E token \in ClassTokens, args \in ArgLists, bad \in {{}, Resolvers} :
          ops < MaxDeepOps /\ DoResolve(token, args, bad)

SpecDeep == Init /\ [][NextDeep]_vars

----------------------------------------------------------------------------
(* Constructor injection: Transform, the Injector slots written by Inject   *)
(* and MapInject, and Construct.                                            *)

\* a transformation that also transforms what Resolve threw
Transform_Catching(s, token, transform, args, bad) ==
    LET res == Resolve(s, token, args, bad)
        t == [res.s EXCEPT !.transformed =
                  Append(@, [map |-> transform, of |-> res.val])]
    IN  IF transform \in bad THEN Thrown(t, TransformError(transform))
        ELSE Returned(t, Mapped(transform, res.val))

Transform(s, token, transform, args, bad) ==
    LET res == Resolve(s, token, args, bad)
    IN  IF res.out = "throw" THEN res
        ELSE LET t == [res.s EXCEPT !.transformed =
                            Append(@, [map |-> transform, of |-> res.val])]
             IN  IF transform \in bad THEN Thrown(t, TransformError(transform))
                 ELSE Returned(t, Mapped(transform, res.val))

\* new Injector(token, map, args); map is "null" or a transform
Injector(token, map, args) == [token |-> token, map |-> map, args |-> args]

\* target.prototype.$dependencyInjectors: a property read, so the prototype
\* chain of the class is searched from the class upwards
RECURSIVE ProtoInjectors(_, _)
ProtoInjectors(di, c) ==
    IF c \notin DOMAIN di THEN Undefined
    ELSE IF di[c] # Undefined THEN di[c]
    ELSE ProtoInjectors(di, SuperOf(c))

\* the class on whose prototype that array object was found
RECURSIVE InjectorsOwner(_, _)
InjectorsOwner(di, c) ==
    IF c \notin DOMAIN di \/ di[c] # Undefined THEN c
    ELSE InjectorsOwner(di, SuperOf(c))

ReflectMetadataIfNeeded(s, target) ==
    IF ProtoInjectors(s.dependencyInjectors, target) # Undefined THEN s
    ELSE [s EXCEPT !.dependencyInjectors[target] =
            Array([i \in DOMAIN ParamTypes(target) |->
                      Injector(ParamTypes(target)[i], "null", <<>>)])]

\* a write that appends the injector instead of writing its slot
SetInjector_Appending(s, target, parameterIndex, injector) ==
    LET owner == InjectorsOwner(s.dependencyInjectors, target)
    IN  [s EXCEPT !.dependencyInjectors[owner].items = Append(@, injector)]

\* target.prototype.$dependencyInjectors[parameterIndex] = injector: an element
\* write into the array object the property read finds
SetInjector(s, target, parameterIndex, injector) ==
    LET owner == InjectorsOwner(s.dependencyInjectors, target)
    IN  [s EXCEPT !.dependencyInjectors[owner].items[parameterIndex + 1] = injector]

\* the parameter decorator Inject(token, ...args) applied to a parameter
Inject(s, token, args, target, parameterIndex) ==
    SetInjector(ReflectMetadataIfNeeded(s, target), target, parameterIndex,
                Injector(token, "null", args))

\* the parameter decorator MapInject(token, map, ...args) applied to a parameter
MapInject(s, token, map, args, target, parameterIndex) ==
    SetInjector(ReflectMetadataIfNeeded(s, target), target, parameterIndex,
                Injector(token, map, args))

\* new target(...args)
New(s, target, args) ==
    Returned([s EXCEPT !.nextId = @ + 1,
                       !.built = Append(@, [class |-> target, args |-> args])],
             [id |-> s.nextId, by |-> target, args |-> args])

\* the result res of resolving `token` with `args` on behalf of an injector or
\* a property bound to the argument list `bound`, noted in the `resolved` log
\* with the resolver invocations made on the way from the state s
Noted(s, token, map, bound, args, res) ==
    [res EXCEPT !.s.resolved = Append(@,
        [token |-> token, map |-> map, bound |-> bound, args |-> args,
         out |-> res.out, val |-> res.val,
         calls |-> SubSeq(res.s.trace, Len(s.trace) + 1, Len(res.s.trace))])]

\* a callback that resolves every slot without its transform
Dependency_Plain(s, injector, bad) ==
    Noted(s, injector.token, injector.map, injector.args, injector.args,
          Resolve(s, injector.token, injector.args, bad))

\* the callback Construct maps over the injectors
Dependency(s, injector, bad) ==
    Noted(s, injector.token, injector.map, injector.args, injector.args,
          IF injector.map # "null"
          THEN Transform(s, injector.token, injector.map, injector.args, bad)
          ELSE Resolve(s, injector.token, injector.args, bad))

\* a mapping that visits the slots from the last one to the first
RECURSIVE Dependencies_Reversed(_, _, _, _, _)
Dependencies_Reversed(s, items, i, deps, bad) ==
    IF i > Len(items) THEN Returned(s, deps)
    ELSE LET res == Dependency(s, items[Len(items) + 1 - i], bad)
         IN  IF res.out = "throw" THEN res
             ELSE Dependencies_Reversed(res.s, items, i + 1,
                                        <<res.val>> \o deps, bad)

\* a mapping that catches what a slot throws and passes undefined for it
RECURSIVE Dependencies_Catching(_, _, _, _, _)
Dependencies_Catching(s, items, i, deps, bad) ==
    IF i > Len(items) THEN Returned(s, deps)
    ELSE LET res == Dependency(s, items[i], bad)
         IN  Dependencies_Catching(res.s, items, i + 1,
                 Append(deps, IF res.out = "throw" THEN Undefined ELSE res.val),
                 bad)

\* $dependencyInjectors.map(...) from slot i on; deps are the values so far
RECURSIVE Dependencies(_, _, _, _, _)
Dependencies(s, items, i, deps, bad) ==
    IF i > Len(items) THEN Returned(s, deps)
    ELSE LET res == Dependency(s, items[i], bad)
         IN  IF res.out = "throw" THEN res
             ELSE Dependencies(res.s, items, i + 1, Append(deps, res.val), bad)

\* a construction that restores the registry when a slot throws
Construct_Restoring(s, target, args, bad) ==
    LET injectors == ProtoInjectors(s.dependencyInjectors, target)
    IN  IF Len(args) > 0 \/ injectors = Undefined THEN New(s, target, args)
        ELSE LET dependencies == Dependencies(s, injectors.items, 1, <<>>, bad)
             IN  IF dependencies.out = "throw"
                 THEN Thrown([dependencies.s EXCEPT
                                 !.resolvers = s.resolvers,
                                 !.dependencyResolver = s.dependencyResolver],
                             dependencies.val)
                 ELSE New(dependencies.s, target, dependencies.val)

\* a construction that injects whenever the class has injectors
Construct_Injecting(s, target, args, bad) ==
    LET injectors == ProtoInjectors(s.dependencyInjectors, target)
    IN  IF injectors = Undefined THEN New(s, target, args)
        ELSE LET dependencies == Dependencies(s, injectors.items, 1, <<>>, bad)
             IN  IF dependencies.out = "throw" THEN dependencies
                 ELSE New(dependencies.s, target, dependencies.val)

Construct(s, target, args, bad) ==
    LET injectors == ProtoInjectors(s.dependencyInjectors, target)
    IN  IF Len(args) > 0 \/ injectors = Undefined THEN New(s, target, args)
        ELSE LET dependencies == Dependencies(s, injectors.items, 1, <<>>, bad)
             IN  IF dependencies.out = "throw" THEN dependencies
                 ELSE New(dependencies.s, target, dependencies.val)

\* the resolver a class decorator registers: the one it was given, if any
ResolveOrConstruct(target, resolver) ==
    IF resolver # Undefined THEN resolver ELSE Forward(target)

\* the class decorator Resolvable(resolver) applied to the class target
Resolvable(s, resolver, target) ==
    RegisterResolver(ReflectMetadataIfNeeded(s, target), Type(target),
                     ResolveOrConstruct(target, resolver))

\* the class decorator Singleton(resolver) applied to the class target
Singleton(s, resolver, target) ==
    RegisterSingleton(ReflectMetadataIfNeeded(s, target), Type(target),
                      ResolveOrConstruct(target, resolver))

----------------------------------------------------------------------------
(* Injected properties: the getter the decorator Dynamic defines, and the   *)
(* getter the property decorator Inject of the earlier src/index.ts defines *)

resolveArguments(s, args) ==
    [i \in DOMAIN args |-> IF args[i] = LazyArg THEN s.externalName ELSE args[i]]

\* get: () => Resolve(token, ...args)
DynamicGetter(s, token, args, bad) ==
    Noted(s, token, "null", args, args, Resolve(s, token, args, bad))

\* get: () => Transform(token, map, ...args)
MapGetter(s, token, map, args, bad) ==
    Noted(s, token, map, args, args, Transform(s, token, map, args, bad))

\* get: () => Resolve(token, ...resolveArguments(args))
InjectGetter(s, token, args, bad) ==
    Noted(s, token, "null", args, resolveArguments(s, args),
          Resolve(s, token, resolveArguments(s, args), bad))

----------------------------------------------------------------------------
(* The state machine of constructor and property injection.  It starts     *)
(* after the dependencies were registered: class A as a singleton made by  *)
(* r1 and the name "svc" with the plain resolver r2.                        *)

InjectTokens == {Type("A"), Name("svc")}

\* the functions that may throw during a call: a resolver or the transform
Throwers == {{}, {"r2"}, {"name"}}

Annotation(op, token, args, target, parameterIndex, injector, s2) ==
    /\ ops' = ops + 1
    /\ CommitStores(s2)
    /\ decorated' = [decorated EXCEPT ![target][parameterIndex] = injector]
    /\ last' = [Outcome(Call(op, token, "-", args), Returned(s2, NoInst)) EXCEPT
                    !.target = target, !.index = parameterIndex]
    /\ UNCHANGED <<property, access, classDecorator, hist>>

DoInject(token, args, target, parameterIndex) ==
    Annotation("Inject", token, args, target, parameterIndex,
               Injector(token, "null", args),
               Inject(Stores, token, args, target, parameterIndex))

DoMapInject(token, map, args, target, parameterIndex) ==
    Annotation("MapInject", token, args, target, parameterIndex,
               Injector(token, map, args),
               MapInject(Stores, token, map, args, target, parameterIndex))

DoConstruct(target, args, bad) ==
    LET res == Construct(Stores, target, args, bad)
    IN  /\ ops' = ops + 1
        /\ CommitStores(res.s)
        /\ last' = Outcome(Call("Construct", Type(target), "-", args), res)
        /\ UNCHANGED <<property, decorated, access, classDecorator, hist>>

\* the closure a property decorator hands to DefineDynamicProperty or
\* DefineLazyProperty, or the value a resolve-once property was replaced by
PropertyResolver(s, p, bad) ==
    CASE p.kind \in {"Dynamic", "Lazy"} -> DynamicGetter(s, p.token, p.args, bad)
      [] p.kind \in {"DynamicMap", "LazyMap"} ->
            MapGetter(s, p.token, p.map, p.args, bad)
      [] p.kind = "Inject" -> InjectGetter(s, p.token, p.args, bad)
      [] p.kind = "Value" -> Returned(s, p.value)

\* every accessor replaces itself by the value it returned
PropertyAfter_Always(p, res) ==
    IF res.out = "value"
    THEN [p EXCEPT !.kind = "Value", !.value = res.val]
    ELSE p

\* a resolve-once accessor replaces itself by whatever its read ended with,
\* an error included
PropertyAfter_OnThrow(p, res) ==
    IF p.kind \in {"Lazy", "LazyMap"}
    THEN [p EXCEPT !.kind = "Value", !.value = res.val]
    ELSE p

\* no accessor replaces itself
PropertyAfter_Never(p, res) == p

\* the property after a read that ended as res: DefineLazyProperty replaces
\* the accessor by the value once its resolver has returned
PropertyAfter(p, res) ==
    IF p.kind \in {"Lazy", "LazyMap"} /\ res.out = "value"
    THEN [p EXCEPT !.kind = "Value", !.value = res.val]
    ELSE p

DefineProperty(decorator, token, map, args) ==
    /\ ops' = ops + 1
    /\ property' = [kind |-> decorator, token |-> token, map |-> map,
                    args |-> args, value |-> NoInst, own |-> <<>>]
    /\ access' = [NoAccess EXCEPT !.decorator = decorator]
    /\ last' = Call(decorator, token, "-", args)
    /\ UNCHANGED <<resolvers, dependencyResolver, dependencyInjectors,
                   externalName, decorated, classDecorator, nextId, hist>>

\* the property decorator applied to the property of the subject class
DoDefineProperty(decorator, token, args) ==
    DefineProperty(decorator, token, "null", args)

\* the property decorator DynamicMap or LazyMap applied
DoDefineMapProperty(decorator, token, map, args) ==
    DefineProperty(decorator, token, map, args)

\* history of a read of the property that ended as res
Accessed(res) ==
    [access EXCEPT
        !.reads = @ + 1,
        !.resolves = @ + Len(res.s.resolved),
        !.invoked = @ + Len(res.s.trace),
        !.transforms = @ + Len(res.s.transformed),
        !.plain = @ /\ OwnEntry(Stores, property.token).kind = "resolver",
        !.value = IF @ = NoInst /\ res.out = "value" THEN res.val ELSE @,
        !.late = IF access.value # NoInst THEN @ + 1 ELSE @,
        !.lateWork = IF access.value # NoInst
                     THEN @ + Len(res.s.resolved) + Len(res.s.trace)
                            + Len(res.s.transformed)
                     ELSE @]

\* a read of the injected property
DoGetProperty(bad) ==
    /\ property # Undefined
    /\ LET res == PropertyResolver(Stores, property, bad)
       IN  /\ ops' = ops + 1
           /\ CommitStores(res.s)
           /\ property' = PropertyAfter(property, res)
           /\ access' = Accessed(res)
           /\ last' = Outcome(Call("Get", property.token, "-", <<>>), res)
           /\ UNCHANGED <<decorated, classDecorator, hist>>

\* a resolve-once accessor that defines the value on the instance it was
\* read through
DefineLazyValue_OnInstance(p, i, res) ==
    IF p.kind \in {"Lazy", "LazyMap"} /\ res.out = "value"
    THEN [p EXCEPT !.own[i] = res.val]
    ELSE p

\* Object.defineProperty(target, property, {value: instance}) in the getter
\* of DefineLazyProperty, run by a read through instance i: target is the
\* prototype the decorator was applied to
DefineLazyValue(p, i, res) == PropertyAfter(p, res)

\* instance.property: an own property of the instance first, the property
\* of the prototype next
InstanceProperty(s, p, i, bad) ==
    IF p.own[i] # NoInst THEN Returned(s, p.own[i])
    ELSE PropertyResolver(s, p, bad)

\* new Subject(): one more instance of the class that declares the property
DoNewSubject ==
    /\ property # Undefined
    /\ Len(property.own) < MaxInstances
    /\ ops' = ops + 1
    /\ property' = [property EXCEPT !.own = Append(@, NoInst)]
    /\ last' = Call("New", property.token, "-", <<>>)
    /\ UNCHANGED <<resolvers, dependencyResolver, dependencyInjectors,
                   externalName, decorated, access, classDecorator, nextId, hist>>

\* a read of the injected property through instance i
DoGetPropertyOf(i, bad) ==
    /\ property # Undefined
    /\ i \in DOMAIN property.own
    /\ LET res == InstanceProperty(Stores, property, i, bad)
           first == access.value = NoInst /\ res.out = "value"
       IN  /\ ops' = ops + 1
           /\ CommitStores(res.s)
           /\ property' = DefineLazyValue(property, i, res)
           /\ access' = [Accessed(res) EXCEPT
                            !.reader = i,
                            !.by = IF first THEN i ELSE @,
                            !.born = IF first THEN Len(property.own) ELSE @]
           /\ last' = Outcome(Call("Get", property.token, "-", <<>>), res)
           /\ UNCHANGED <<decorated, classDecorator, hist>>

\* externalName = name
DoSetExternalName(name) ==
    /\ ops' = ops + 1
    /\ externalName' = name
    /\ last' = Call("SetExternalName", Name("svc"), "-", <<name>>)
    /\ UNCHANGED <<resolvers, dependencyResolver, dependencyInjectors,
                   property, decorated, access, classDecorator, nextId, hist>>

\* the stores before any call
NoStores ==
    [resolvers |-> [n \in NameIds |-> Undefined],
     dependencyResolver |-> [c \in TypeIds |-> Undefined],
     dependencyInjectors |-> [c \in TypeIds |-> Undefined],
     externalName |-> "Initial", nextId |-> 1, trace |-> <<>>,
     resolved |-> <<>>, built |-> <<>>, transformed |-> <<>>,
     raised |-> <<>>, nested |-> <<>>]

\* the stores after RegisterSingleton(A, r1) and RegisterResolver("svc", r2)
RegisteredStores ==
    RegisterResolver(RegisterSingleton(NoStores, Type("A"), Fn("r1")),
                     Name("svc"), Fn("r2"))

InitConstruct ==
    /\ resolvers = RegisteredStores.resolvers
    /\ dependencyResolver = RegisteredStores.dependencyResolver
    /\ dependencyInjectors = RegisteredStores.dependencyInjectors
    /\ externalName = RegisteredStores.externalName
    /\ property = Undefined
    /\ decorated = [c \in Constructables |-> [i \in 0..1 |-> Undefined]]
    /\ access = NoAccess
    /\ classDecorator = [c \in Constructables |-> "none"]
    /\ nextId = RegisteredStores.nextId
    /\ ops = 0
    /\ last = Call("RegisterResolver", Name("svc"), "r2", <<>>)
    /\ hist = [t \in RegTokens |->
                 IF t = Type("A")
                 THEN [NoHist EXCEPT !.touched = TRUE, !.op = "RegisterSingleton",
                                     !.r = "r1", !.wrote = TRUE]
                 ELSE IF t = Name("svc")
                 THEN [NoHist EXCEPT !.touched = TRUE, !.op = "RegisterResolver",
                                     !.r = "r2", !.wrote = TRUE]
                 ELSE NoHist]

NextConstruct ==
    \/ \E token \in InjectTokens, args \in BoundArgLists,
          target \in Constructables, parameterIndex \in 0..1 :
          ops < MaxConstructOps /\ DoInject(token, args, target, parameterIndex)
    \/ \E token \in InjectTokens, map \in Maps,
          target \in Constructables, parameterIndex \in 0..1 :
          ops < MaxConstructOps
          /\ DoMapInject(token, map, <<>>, target, parameterIndex)
    \/ \E target \in Constructables, args \in ArgLists, bad \in Throwers :
          ops < MaxConstructOps /\ DoConstruct(target, args, bad)
    \/ \E decorator \in {"Dynamic", "Inject"}, args \in BoundArgLists :
          ops < MaxConstructOps /\ DoDefineProperty(decorator, Name("svc"), args)
    \/ \E bad \in Throwers :
          ops < MaxConstructOps /\ DoGetProperty(bad)
    \/ \E name \in ExternalNames :
          ops < MaxConstructOps /\ DoSetExternalName(name)

SpecConstruct == InitConstruct /\ [][NextConstruct]_vars

----------------------------------------------------------------------------
(* The state machine of the injected property and of Transform: the        *)
(* property decorators, reads of the property, overrides of the tokens     *)
(* between the reads, and Transform calls.  It starts as the one above.    *)

\* a plain token, a singleton token and a class that was never registered
TransformTokens == {Name("svc"), Type("A"), Type("X")}

DoTransform(token, map, args, bad) ==
    LET res == Transform(Stores, token, map, args, bad)
    IN  /\ ops' = ops + 1
        /\ CommitStores(res.s)
        /\ last' = [Outcome(Call("Transform", token, map, args), res) EXCEPT
                        !.bad = bad]
        /\ UNCHANGED <<property, decorated, access, classDecorator, hist>>

NextProperty ==
    \/ \E decorator \in {"Dynamic", "Lazy"}, token \in InjectTokens,
          args \in ArgLists :
          ops < MaxPropertyOps /\ DoDefineProperty(decorator, token, args)
    \/ \E decorator \in {"DynamicMap", "LazyMap"}, token \in InjectTokens,
          map \in Maps :
          ops < MaxPropertyOps /\ DoDefineMapProperty(decorator, token, map, <<>>)
    \/ \E bad \in Throwers :
          ops < MaxPropertyOps /\ DoGetProperty(bad)
    \/ \E token \in InjectTokens, r \in Resolvers :
          ops < MaxPropertyOps /\ DoOverrideResolver(token, r)
    \/ \E token \in TransformTokens, map \in Maps, args \in ArgLists,
          bad \in Throwers :
          ops < MaxPropertyOps /\ DoTransform(token, map, args, bad)

SpecProperty == InitConstruct /\ [][NextProperty]_vars

----------------------------------------------------------------------------
(* The state machine of the class decorators: Resolvable and Singleton on  *)
(* the classes X and Y, the parameter decorators, Resolve and Transform of  *)
(* the class tokens, Construct, a property bound to a class token, and     *)
(* overrides of the dependencies.  It starts as the one above.             *)

ClassDecoration(op, resolver, target, s2) ==
    /\ ops' = ops + 1
    /\ CommitStores(s2)
    /\ classDecorator' =
          [classDecorator EXCEPT ![target] =
              IF @ # "none" THEN @
              ELSE IF resolver # Undefined THEN "Custom" ELSE op]
    /\ last' = Outcome(Call(op, Type(target), "-", <<>>), Returned(s2, NoInst))
    /\ UNCHANGED <<property, decorated, access, hist>>

DoResolvable(resolver, target) ==
    ClassDecoration("Resolvable", resolver, target,
                    Resolvable(Stores, resolver, target))

DoSingleton(resolver, target) ==
    ClassDecoration("Singleton", resolver, target,
                    Singleton(Stores, resolver, target))

\* Resolve of the token of a decorated class; `first` tells that the entry
\* found was not a memoized instance
DoResolveClass(token, args, bad) ==
    LET res == Resolve(Stores, token, args, bad)
    IN  /\ ops' = ops + 1
        /\ CommitStores(res.s)
        /\ last' = [Outcome(Call("Resolve", token, "-", args), res) EXCEPT
                        !.first = GetResolver(Stores, token).kind # "instance"]
        /\ UNCHANGED <<property, decorated, access, classDecorator, hist>>

ConstructableTokens == {Type(c) : c \in Constructables}

NextClass ==
    \/ \E resolver \in {Undefined, Fn("r2")}, target \in Constructables :
          ops < MaxClassOps /\ DoResolvable(resolver, target)
    \/ \E target \in Constructables :
          ops < MaxClassOps /\ DoSingleton(Undefined, target)
    \/ \E token \in InjectTokens, target \in Constructables,
          parameterIndex \in 0..1 :
          ops < MaxClassOps /\ DoInject(token, <<>>, target, parameterIndex)
    \/ \E token \in ConstructableTokens, args \in ArgLists, bad \in {{}, {"r2"}} :
          ops < MaxClassOps /\ DoResolveClass(token, args, bad)
    \/ \E target \in Constructables, args \in ArgLists, bad \in {{}, {"r2"}} :
          ops < MaxClassOps /\ DoConstruct(target, args, bad)
    \/ \E token \in ConstructableTokens, map \in Maps :
          ops < MaxClassOps /\ DoTransform(token, map, <<>>, {})
    \/ \E decorator \in {"Dynamic", "Lazy"}, token \in ConstructableTokens :
          ops < MaxClassOps /\ DoDefineProperty(decorator, token, <<>>)
    \/ ops < MaxClassOps /\ DoGetProperty({})
    \/ \E r \in Resolvers :
          ops < MaxClassOps /\ DoOverrideResolver(Name("svc"), r)
    \/ \E r \in Resolvers :
          ops < MaxClassOps /\ DoOverrideSingleton(Type("A"), r)

SpecClass == InitConstruct /\ [][NextClass]_vars

----------------------------------------------------------------------------
(* Properties of the registry *)

ResolveOf(t) == last.op = "Resolve" /\ last.token = t

\* the one invocation of user resolver r with the arguments of the last call
OneCall(r) == <<[call |-> r, args |-> last.args]>>

\* the token's entry is a plain resolver stored by RegisterResolver or
\* OverrideResolver
PlainStored(t) ==
    \/ hist[t].op = "RegisterResolver" /\ hist[t].wrote
    \/ hist[t].op = "OverrideResolver"

\* C1: after RegisterSingleton(T, R) on a token T that had no entry, and until
\* an override of T, the first successful Resolve(T) invokes R exactly once
\* with its arguments and returns what R made; every later Resolve(T) succeeds
\* with that same instance and invokes nothing.
C1_SingletonResolvedOnce ==
    \A t \in RegTokens :
        (hist[t].op = "RegisterSingleton" /\ ResolveOf(t)) =>
            IF last.first
            THEN last.trace = OneCall(hist[t].r) /\ last.val.by = hist[t].r
            ELSE hist[t].inst # NoInst =>
                    /\ last.out = "value"
                    /\ last.trace = <<>>
                    /\ last.val = hist[t].inst

\* C2: Resolve of a token on which no register/override call was ever made
\* throws the unregistered-token error and invokes no resolver.
C2_UnregisteredTokenFails ==
    (last.op = "Resolve" /\ ~hist[last.token].touched) =>
        /\ last.out = "throw"
        /\ last.val = UnregisteredTokenError(last.token)
        /\ last.trace = <<>>

\* C3: once RegisterResolver(T, R1) has stored R1, later RegisterResolver and
\* RegisterSingleton calls on T leave T's entry R1, and every Resolve(T, args)
\* invokes R1, once, with args, and no other resolver.
C3_SoftRegistrationIdempotent ==
    \A t \in RegTokens :
        (hist[t].op = "RegisterResolver" /\ hist[t].wrote) =>
            /\ OwnEntry(Stores, t) = Fn(hist[t].r)
            /\ ResolveOf(t) => last.trace = OneCall(hist[t].r)

\* a Resolve of a token whose stored R1 outlived a later registration of
\* another resolver
C3_Witness ==
    /\ last.op = "Resolve"
    /\ last.out = "value"
    /\ hist[last.token].op = "RegisterResolver"
    /\ hist[last.token].wrote
    /\ hist[last.token].again

C5_NoCachingInResolve ==
    \A t \in RegTokens :
        PlainStored(t) =>
            /\ hist[t].calls = hist[t].resolves
            /\ ResolveOf(t) =>
                  /\ last.trace = OneCall(hist[t].r)
                  /\ last.out = "value" =>
                        last.val = [id |-> nextId - 1, by |-> hist[t].r,
                                    args |-> last.args]

\* the second successful Resolve, with arguments, of a plain resolver
C5_Witness ==
    /\ last.op = "Resolve"
    /\ last.out = "value"
    /\ last.args # <<>>
    /\ PlainStored(last.token)
    /\ hist[last.token].resolves >= 2

\* C6: after OverrideSingleton(T, R2) replaced an instance i1 memoized for T,
\* the next Resolve(T) invokes R2, every later Resolve(T) returns the instance
\* of that one invocation and invokes nothing, and i1 is not returned.
C6_OverrideSingletonReplaces ==
    \A t \in RegTokens :
        (hist[t].op = "OverrideSingleton" /\ hist[t].prev # NoInst /\ ResolveOf(t)) =>
            /\ IF last.first
               THEN last.trace = OneCall(hist[t].r) /\ last.val.by = hist[t].r
               ELSE hist[t].inst # NoInst =>
                       /\ last.out = "value"
                       /\ last.trace = <<>>
                       /\ last.val = hist[t].inst
            /\ last.out = "value" => last.val # hist[t].prev

\* C10: for a token whose entry was stored by RegisterSingleton or
\* OverrideSingleton, every successful Resolve(T, b) returns the instance the
\* resolver built from the arguments of the first successful Resolve(T, a).
C10_FirstArgumentsOnly ==
    \A t \in RegTokens :
        ( /\ hist[t].op \in {"RegisterSingleton", "OverrideSingleton"}
          /\ hist[t].wrote
          /\ ResolveOf(t)
          /\ last.out = "value" ) =>
            /\ last.val = hist[t].inst
            /\ last.val.args = hist[t].firstArgs

----------------------------------------------------------------------------
(* Properties of constructor and property injection *)

ConstructOf(c) == last.op = "Construct" /\ last.token = Type(c)

\* both parameters of class c carry a decorator of their own
Annotated(c) == \A i \in 0..1 : decorated[c][i] # Undefined

\* C7: when parameters 0 and 1 of a class carry injectors for tokens A and B,
\* declared in either order, a Construct of the class without arguments that
\* returns has resolved A for slot 0 and B for slot 1 and has invoked the
\* constructor exactly once, with the value of slot i at position i.
C7_PositionalAutoConstruction ==
    \A c \in Constructables :
        (ConstructOf(c) /\ last.args = <<>> /\ Annotated(c) /\ last.out = "value") =>
            /\ Len(last.resolved) = 2
            /\ \A i \in 0..1 :
                  /\ last.resolved[i + 1].token = decorated[c][i].token
                  /\ last.resolved[i + 1].map = decorated[c][i].map
            /\ last.built = <<[class |-> c,
                               args |-> <<last.resolved[1].val, last.resolved[2].val>>]>>

\* C8: Construct with at least one explicit argument returns an object built
\* by one constructor invocation with exactly those arguments, makes no
\* Resolve call and no resolver invocation, and leaves the registry and the
\* injector slots as they were, also for a class with annotated parameters.
C8_ExplicitArgumentsBypass ==
    \A c \in Constructables :
        (ConstructOf(c) /\ last.args # <<>>) =>
            /\ last.resolved = <<>>
            /\ last.trace = <<>>
            /\ last.same
            /\ last.out = "value"
            /\ last.built = <<[class |-> c, args |-> last.args]>>
            /\ last.val = [id |-> nextId - 1, by |-> c, args |-> last.args]

\* a Construct with an explicit argument of a class whose parameters are
\* both annotated
C8_Witness ==
    /\ last.op = "Construct"
    /\ last.args # <<>>
    /\ Annotated(last.token.id)
    /\ ProtoInjectors(dependencyInjectors, last.token.id) # Undefined

\* C9: whenever an injector slot or an injected property resolves its token,
\* every function among its bound arguments has been replaced by the value
\* the function returns at that moment: the resolver is called with the
\* evaluated arguments, never with the function.
C9_LazyBoundArguments ==
    (last.op \in {"Construct", "Get"}) =>
        \A i \in DOMAIN last.resolved :
            LET e == last.resolved[i]
            IN  /\ e.args = resolveArguments(Stores, e.bound)
                /\ \A j \in DOMAIN e.calls :
                      e.calls[j].args = resolveArguments(Stores, e.bound)

----------------------------------------------------------------------------
(* Properties of the injected property and of Transform *)

ReadOf(decorators) == last.op = "Get" /\ access.decorator \in decorators

\* C11: every read of a Dynamic property makes exactly one Resolve call, of
\* the bound token with the bound arguments; while the token's own entry is
\* a plain resolver the read invokes the resolver that is the entry at that
\* moment (so an override between two reads shows in the second), once, and
\* returns the object it made: n reads, n invocations.
C11_DynamicResolvesEveryRead ==
    ReadOf({"Dynamic"}) =>
        /\ Len(last.resolved) = 1
        /\ last.resolved[1].token = property.token
        /\ last.resolved[1].args = property.args
        /\ access.resolves = access.reads
        /\ access.plain => access.invoked = access.reads
        /\ OwnEntry(Stores, property.token).kind = "resolver" =>
              /\ last.trace = <<[call |-> OwnEntry(Stores, property.token).r,
                                 args |-> property.args]>>
              /\ last.out = "value" =>
                    last.val = [id |-> nextId - 1,
                                by |-> OwnEntry(Stores, property.token).r,
                                args |-> property.args]

\* the second successful read of a Dynamic property of a plain token, made by
\* another resolver than the first: the token was overridden in between
C11_Witness ==
    /\ ReadOf({"Dynamic"})
    /\ last.out = "value"
    /\ access.plain
    /\ access.reads >= 2
    /\ hist[property.token].op = "OverrideResolver"
    /\ last.val.by # access.value.by

\* C12: once a read of a Lazy or LazyMap property has succeeded, every later
\* read returns that same value and makes no Resolve call, no resolver
\* invocation and no transform invocation, whatever the token's entry is or
\* has become.
C12_LazyResolvesOnce ==
    ReadOf({"Lazy", "LazyMap"}) =>
        /\ access.lateWork = 0
        /\ access.value # NoInst =>
              /\ last.out = "value"
              /\ last.val = access.value
        /\ access.late > 0 =>
              last.resolved = <<>> /\ last.trace = <<>> /\ last.transformed = <<>>

\* a read of a resolve-once property after its first successful read and
\* after a later override of its token
C12_Witness ==
    /\ ReadOf({"Lazy"})
    /\ access.late >= 1
    /\ hist[property.token].op = "OverrideResolver"
    /\ ~(access.value.by = hist[property.token].r)

\* C13: a Transform(token, transform, args) call is transform(Resolve(token,
\* args)): when the Resolve throws, the call throws the same error, leaves
\* the stores as the Resolve left them and does not invoke the transform;
\* otherwise the transform is invoked exactly once, with what Resolve
\* returned, and the call returns what the transform returned (or throws
\* what it threw).
C13_TransformOfResolve ==
    [][ last'.op = "Transform" =>
          LET res == Resolve(Stores, last'.token, last'.args, last'.bad)
          IN  /\ last'.trace = res.s.trace
              /\ resolvers' = res.s.resolvers
              /\ dependencyResolver' = res.s.dependencyResolver
              /\ IF res.out = "throw"
                 THEN /\ last'.out = "throw"
                      /\ last'.val = res.val
                      /\ last'.transformed = <<>>
                 ELSE /\ last'.transformed = <<[map |-> last'.r, of |-> res.val]>>
                      /\ IF last'.r \in last'.bad
                         THEN /\ last'.out = "throw"
                              /\ last'.val = TransformError(last'.r)
                         ELSE /\ last'.out = "value"
                              /\ last'.val = Mapped(last'.r, res.val)
      ]_vars

\* a Transform call that returned the transform of an object a resolver made
\* from the call's arguments
C13_Witness ==
    /\ last.op = "Transform"
    /\ last.out = "value"
    /\ last.args # <<>>
    /\ Len(last.trace) = 1
    /\ last.val = Mapped(last.r, [id |-> nextId - 1, by |-> last.trace[1].call,
                                  args |-> last.args])

----------------------------------------------------------------------------
(* Properties of the class decorators, of the registry under construction  *)
(* and of error propagation                                                *)

AllTokens == {Name(n) : n \in NameIds} \cup {Type(c) : c \in TypeIds}

FreshSlots(c, i, injector) ==
    [j \in DOMAIN ParamTypes(c) |->
        IF j = i + 1 THEN injector
        ELSE Injector(ParamTypes(c)[j], "null", <<>>)]

C16_PlainConstruction ==
    \A c \in Constructables :
        (/\ ConstructOf(c)
         /\ last.args = <<>>
         /\ \A i \in 0..1 : decorated[c][i] = Undefined) =>
            /\ last.resolved = <<>>
            /\ last.same
            /\ last.built = <<[class |-> c, args |-> <<>>]>>

\* C17: for a class T decorated with Resolvable() or Singleton() without a
\* custom resolver, a Resolve of T that is not answered by a stored singleton
\* instance forwards to Construct: with arguments it returns an object built
\* by one invocation of T's constructor with exactly those arguments and
\* resolves nothing; without arguments a call that returns has resolved the
\* token of each injector slot of T in order and has built T once from the
\* resolved values.
C17_DecoratedClassForwardsToConstruct ==
    \A c \in Constructables :
        (/\ classDecorator[c] \in {"Resolvable", "Singleton"}
         /\ last.op = "Resolve"
         /\ last.token = Type(c)
         /\ last.first) =>
            IF last.args # <<>>
            THEN /\ last.out = "value"
                 /\ last.resolved = <<>>
                 /\ last.trace = <<>>
                 /\ last.built = <<[class |-> c, args |-> last.args]>>
            ELSE last.out = "value" =>
                 LET list == ProtoInjectors(dependencyInjectors, c)
                 IN  /\ list # Undefined
                     /\ Len(last.resolved) = Len(list.items)
                     /\ \A i \in DOMAIN last.resolved :
                           last.resolved[i].token = list.items[i].token
                     /\ last.built =
                           <<[class |-> c,
                              args |-> [i \in DOMAIN last.resolved |->
                                            last.resolved[i].val]]>>

\* C19: the unregistered-token error is never caught by the library: an API
\* call during which Resolve raised it, at the top or nested in Construct,
\* Transform, the resolver of a decorated class or a property getter, ends
\* by throwing that very error, raises no second one, and invokes no
\* constructor and no transform.
C19_UnregisteredErrorPropagates ==
    last.raised # <<>> =>
        /\ last.out = "throw"
        /\ last.val = last.raised[1]
        /\ Len(last.raised) = 1
        /\ last.built = <<>>
        /\ last.transformed = <<>>

\* a Resolve of a decorated class whose forwarding resolver ran Construct,
\* in which the Resolve of an injector slot raised the error
C19_Witness ==
    /\ last.op = "Resolve"
    /\ last.token \in ConstructableTokens
    /\ classDecorator[last.token.id] \in {"Resolvable", "Singleton"}
    /\ last.raised # <<>>
    /\ last.resolved # <<>>
    /\ last.raised[1] # UnregisteredTokenError(last.token)

----------------------------------------------------------------------------
(* Resolvers that mutate the registry while Resolve runs them.              *)

NestTokens == {Name("svc"), Type("A")}
NestedOps == {"OverrideResolver", "OverrideSingleton"}

\* OverrideResolver(token, r3) where r3 calls op(inner, r2) in its body
DoOverrideResolverNesting(token, op, inner) ==
    LET fn == Nesting("r3", op, inner, "r2")
    IN  Registration("OverrideResolver", token, "r3", fn,
                     OverrideResolver(Stores, token, fn))

\* OverrideSingleton(token, r3) where r3 calls op(inner, r2) in its body
DoOverrideSingletonNesting(token, op, inner) ==
    LET fn == Nesting("r3", op, inner, "r2")
    IN  Registration("OverrideSingleton", token, "r3", ResolveOnce(token, fn),
                     OverrideSingleton(Stores, token, fn))

NextNested ==
    \/ \E token \in NestTokens, op \in NestedOps, inner \in NestTokens :
          ops < MaxNestedOps /\ DoOverrideResolverNesting(token, op, inner)
    \/ \E token \in NestTokens, op \in NestedOps, inner \in NestTokens :
          ops < MaxNestedOps /\ DoOverrideSingletonNesting(token, op, inner)
    \/ \E token \in NestTokens :
          ops < MaxNestedOps /\ DoOverrideResolver(token, "r1")
    \/ \E token \in NestTokens, args \in ArgLists :
          ops < MaxNestedOps /\ DoResolve(token, args, {})

SpecNested == Init /\ [][NextNested]_vars

\* the function a nested call n = op(token, r) is to leave in the registry
NestedEntry(n) ==
    IF n.op = "OverrideResolver" THEN Fn(n.r)
    ELSE ResolveOnce(n.token, Fn(n.r))

\* C18: when a resolver that ran inside a Resolve call has called
\* OverrideResolver(U, R') or OverrideSingleton(U, R'), for U the resolved
\* token or another one, then once the Resolve call has returned the
\* registry holds for U the function that nested call stored (R', or R'
\* wrapped for a single resolution), so that the next lookup of U uses R'.
C18_NestedOverrideVisible ==
    (last.op = "Resolve" /\ last.out = "value" /\ last.nested # <<>>) =>
        LET n == last.nested[Len(last.nested)]
        IN  GetResolver(Stores, n.token) = NestedEntry(n)

----------------------------------------------------------------------------
(* Name tokens and type tokens, with a name spelled like a class.           *)

SpellingTokens == {Name("svc"), Name("A"), Type("A"), Type("B")}

InitTokens ==
    /\ resolvers = [n \in NameIds |-> Undefined]
    /\ dependencyResolver = [c \in TypeIds |-> Undefined]
    /\ dependencyInjectors = [c \in TypeIds |-> Undefined]
    /\ externalName = "Initial"
    /\ property = Undefined
    /\ decorated = [c \in Constructables |-> [i \in 0..1 |-> Undefined]]
    /\ access = NoAccess
    /\ classDecorator = [c \in Constructables |-> "none"]
    /\ nextId = 1
    /\ ops = 0
    /\ last = Call("none", Name("svc"), "-", <<>>)
    /\ hist = [t \in SpellingTokens |-> NoHist]

NextTokens ==
    \/ \E token \in SpellingTokens, r \in Resolvers :
          ops < MaxTokenOps /\ DoRegisterResolver(token, r)
    \/ \E token \in SpellingTokens, r \in Resolvers :
          ops < MaxTokenOps /\ DoOverrideResolver(token, r)
    \/ \E token \in SpellingTokens, r \in Resolvers :
          ops < MaxTokenOps /\ DoRegisterSingleton(token, r)
    \/ \E token \in SpellingTokens, r \in Resolvers :
          ops < MaxTokenOps /\ DoOverrideSingleton(token, r)
    \/ \E token \in SpellingTokens, args \in ArgLists :
          ops < MaxTokenOps /\ DoResolve(token, args, {})

SpecTokens == InitTokens /\ [][NextTokens]_vars

RegistrationOps ==
    {"RegisterResolver", "OverrideResolver", "RegisterSingleton", "OverrideSingleton"}

----------------------------------------------------------------------------
(* Further properties of the registry *)

\* the token has an entry of its own that the last override or the first
\* registration stored
OwnStored(h) ==
    h.wrote \/ h.op \in {"OverrideResolver", "OverrideSingleton"}

\* C21: RegisterSingleton(T, R2) on a token T that has an entry, and
\* RegisterResolver(T, R2) likewise, changes no registry entry and invokes
\* nothing; afterwards every Resolve(T) invokes only the resolver stored
\* before, a plain one once per call, and a token with a memoized instance
\* keeps returning that instance without any invocation.
C21_RegisterOnExistingIsNoOp ==
    [][ /\ ( /\ ops' = ops + 1
             /\ last'.op \in {"RegisterSingleton", "RegisterResolver"}
             /\ OwnEntry(Stores, last'.token) # Undefined ) =>
                /\ resolvers' = resolvers
                /\ dependencyResolver' = dependencyResolver
                /\ nextId' = nextId
                /\ last'.trace = <<>>
        /\ ( /\ ops' = ops + 1
             /\ last'.op = "Resolve"
             /\ hist[last'.token].again
             /\ OwnStored(hist[last'.token]) ) =>
                LET h == hist[last'.token]
                    old == OwnEntry(Stores, last'.token)
                IN  /\ \A i \in DOMAIN last'.trace : last'.trace[i].call = h.r
                    /\ old.kind = "resolver" =>
                          last'.trace = <<[call |-> h.r, args |-> last'.args]>>
                    /\ old.kind = "instance" =>
                          /\ last'.trace = <<>>
                          /\ last'.out = "value"
                          /\ last'.val = old.inst
                          /\ OwnEntry(Stores', last'.token) = old
      ]_vars

\* a Resolve that returned the memoized instance of a token on which a
\* RegisterSingleton or RegisterResolver with another resolver had been made
C21_Witness ==
    /\ last.op = "Resolve"
    /\ last.out = "value"
    /\ last.trace = <<>>
    /\ hist[last.token].op = "RegisterSingleton"
    /\ hist[last.token].wrote
    /\ hist[last.token].again
    /\ hist[last.token].resolves >= 2
    /\ last.val = hist[last.token].inst

\* C22: a Resolve of a token whose entry is the closure of a singleton not
\* yet resolved invokes the underlying resolver once; when that throws, the
\* call throws the same error and the entry stays the closure, so the next
\* Resolve invokes the resolver again; when it returns, the entry becomes the
\* instance, and a Resolve of a token whose entry is an instance invokes
\* nothing.
C22_MemoizationOnlyOnSuccess ==
    [][ (ops' = ops + 1 /\ last'.op = "Resolve") =>
          LET token == last'.token
              old == OwnEntry(Stores, token)
          IN  /\ old.kind = "once" =>
                    /\ last'.trace = <<[call |-> old.resolve.r, args |-> last'.args]>>
                    /\ last'.out = "throw" =>
                          /\ last'.val = ResolverError(old.resolve.r)
                          /\ OwnEntry(Stores', token) = old
                          /\ resolvers' = resolvers
                          /\ dependencyResolver' = dependencyResolver
                    /\ last'.out = "value" =>
                          /\ last'.val.by = old.resolve.r
                          /\ OwnEntry(Stores', token) = Const(last'.val)
              /\ old.kind = "instance" =>
                    /\ last'.trace = <<>>
                    /\ last'.val = old.inst
      ]_vars

\* the Resolve of a singleton that succeeded after an earlier Resolve of it
\* had thrown
C22_Witness ==
    /\ last.op = "Resolve"
    /\ last.out = "value"
    /\ last.trace # <<>>
    /\ hist[last.token].op \in {"RegisterSingleton", "OverrideSingleton"}
    /\ hist[last.token].wrote
    /\ hist[last.token].resolves >= 2
    /\ hist[last.token].calls = hist[last.token].resolves
    /\ OwnEntry(Stores, last.token) = Const(last.val)

----------------------------------------------------------------------------
(* Further properties of Construct *)

\* the resolver invocations of the first n entries of the log `resolved`
RECURSIVE CallsOf(_, _)
CallsOf(resolved, n) ==
    IF n = 0 THEN <<>> ELSE CallsOf(resolved, n - 1) \o resolved[n].calls

\* a Construct without arguments of a class for which a list of injectors
\* is found
AutoConstructOf(c) ==
    /\ ConstructOf(c)
    /\ last.args = <<>>
    /\ ProtoInjectors(dependencyInjectors, c) # Undefined

\* C23: a Construct without arguments resolves the slots of the injector
\* list in increasing index order, each once, stopping at the first slot
\* that throws: the k-th Resolve of the call is for slot k, the resolver
\* invocations of the call are those of slot 1, then those of slot 2, and
\* the constructor is invoked, once, only when every slot was resolved.
C23_SlotsResolvedInIndexOrder ==
    \A c \in Constructables :
        AutoConstructOf(c) =>
            LET items == ProtoInjectors(dependencyInjectors, c).items
                n == Len(last.resolved)
            IN  /\ n >= 1
                /\ n <= Len(items)
                /\ \A k \in 1..n :
                      /\ last.resolved[k].token = items[k].token
                      /\ last.resolved[k].map = items[k].map
                      /\ k < n => last.resolved[k].out = "value"
                /\ last.trace = CallsOf(last.resolved, n)
                /\ IF last.resolved[n].out = "value" /\ n = Len(items)
                   THEN /\ last.out = "value"
                        /\ last.built =
                              <<[class |-> c,
                                 args |-> [k \in 1..n |-> last.resolved[k].val]]>>
                   ELSE /\ last.out = "throw"
                        /\ last.resolved[n].out = "throw"
                        /\ last.built = <<>>

\* a Construct that resolved "svc" for slot 0 through r2 and then the class
\* A for slot 1 through r1, both parameters carrying decorators
C23_Witness ==
    /\ last.op = "Construct"
    /\ last.args = <<>>
    /\ last.out = "value"
    /\ Annotated(last.token.id)
    /\ Len(last.trace) = 2
    /\ last.trace[1].call = "r2"
    /\ last.trace[2].call = "r1"
    /\ last.resolved[1].token = Name("svc")
    /\ last.resolved[2].token = Type("A")

\* the slots among the first n whose transform was invoked: the slot has a
\* transform and its value was made by it or its error was thrown by it
TransformedSlots(items, resolved, n) ==
    {k \in 1..n :
        /\ items[k].map # "null"
        /\ \/ resolved[k].out = "value"
           \/ resolved[k].val = TransformError(items[k].map)}

\* C24: in a Construct without arguments a slot with a transform contributes
\* at its position the transform applied to what Resolve returned for the
\* slot's token and bound arguments, a slot without one contributes what
\* Resolve returned as it is, and the call invokes the transform of a slot
\* once, on the value resolved for that slot, and no other transform.
C24_SlotTransformApplied ==
    \A c \in Constructables :
        AutoConstructOf(c) =>
            LET items == ProtoInjectors(dependencyInjectors, c).items
                n == Len(last.resolved)
            IN  /\ n <= Len(items)
                /\ Len(last.transformed)
                      = Cardinality(TransformedSlots(items, last.resolved, n))
                /\ \A k \in 1..n :
                      LET e == last.resolved[k]
                      IN  /\ e.token = items[k].token
                          /\ e.args = items[k].args
                          /\ \A j \in DOMAIN e.calls : e.calls[j].args = items[k].args
                          /\ e.out = "value" =>
                                LET v == IF items[k].map = "null" THEN e.val
                                         ELSE e.val.of
                                IN  /\ DOMAIN v = {"id", "by", "args"}
                                    /\ e.calls # <<>> =>
                                          /\ v.by = e.calls[1].call
                                          /\ v.args = items[k].args
                                    /\ items[k].map # "null" =>
                                          /\ e.val = Mapped(items[k].map, v)
                                          /\ \E j \in DOMAIN last.transformed :
                                                last.transformed[j]
                                                   = [map |-> items[k].map, of |-> v]
                                    /\ last.out = "value" =>
                                          last.built[1].args[k] = e.val

\* a Construct whose slot 0 has a transform and whose slot 1 has none: the
\* constructor got the transformed value first and the plain instance second
C24_Witness ==
    /\ last.op = "Construct"
    /\ last.args = <<>>
    /\ last.out = "value"
    /\ Len(last.transformed) = 1
    /\ last.built[1].args[1] = Mapped("name", last.transformed[1].of)
    /\ last.built[1].args[2] = last.resolved[2].val
    /\ last.resolved[2].map = "null"
    /\ last.resolved[2].calls # <<>>

\* the object Resolve returned for the entry e of the log `resolved`
ResolvedObject(e) == IF e.map = "null" THEN e.val ELSE e.val.of

\* C25: when a slot of a Construct without arguments throws, the call throws
\* what the slot threw, no later slot is resolved and no constructor is
\* invoked, and what the earlier slots wrote to the registry stays: a
\* singleton first resolved by an earlier slot keeps the instance made then
\* as its entry, and a Resolve of it afterwards returns that instance
\* without invoking anything.
C25_NoRollbackInConstruct ==
    [][ ( /\ ops' = ops + 1
          /\ last'.op = "Construct"
          /\ last'.args = <<>>
          /\ last'.out = "throw" ) =>
          LET n == Len(last'.resolved)
              items == ProtoInjectors(dependencyInjectors, last'.token.id).items
          IN  /\ n >= 1
              /\ last'.resolved[n].out = "throw"
              /\ last'.val = last'.resolved[n].val
              /\ last'.built = <<>>
              /\ \A k \in 1..n : last'.resolved[k].token = items[k].token
              /\ \A k \in 1..(n - 1) :
                    LET e == last'.resolved[k]
                        later == Resolve(Stores', e.token, <<>>, {})
                    IN  /\ e.out = "value"
                        /\ OwnEntry(Stores, e.token).kind = "once" =>
                              /\ e.calls # <<>>
                              /\ OwnEntry(Stores', e.token) = Const(ResolvedObject(e))
                              /\ later.out = "value"
                              /\ later.val = ResolvedObject(e)
                              /\ later.s.trace = <<>>
      ]_vars

\* a Construct that threw at slot 1 after slot 0 had resolved the singleton
\* A for the first time: the instance made for slot 0 is A's entry
C25_Witness ==
    /\ last.op = "Construct"
    /\ last.args = <<>>
    /\ last.out = "throw"
    /\ Len(last.resolved) = 2
    /\ last.resolved[1].token = Type("A")
    /\ last.resolved[1].calls # <<>>
    /\ last.resolved[1].out = "value"
    /\ dependencyResolver["A"] = Const(ResolvedObject(last.resolved[1]))
    /\ ~last.same

\* C26: a Resolve(T) changes no injector list and no registry entry of a
\* token other than T, and it changes T's own entry only when that entry
\* was the closure of a singleton not yet resolved (which it replaces by the
\* instance); in particular a Resolve that fails for an unregistered token
\* and a Resolve of a plain resolver change nothing.
C26_ResolveWritesOnlyMemoization ==
    [][ (ops' = ops + 1 /\ last'.op = "Resolve") =>
          /\ dependencyInjectors' = dependencyInjectors
          /\ \A t \in AllTokens :
                (t # last'.token \/ OwnEntry(Stores, t).kind # "once") =>
                    OwnEntry(Stores', t) = OwnEntry(Stores, t)
      ]_vars

----------------------------------------------------------------------------
(* Ownership of entries and of injector lists *)

\* C27: the entry of a class token belongs to the class alone: a
\* RegisterResolver or RegisterSingleton call on a class that has no entry of
\* its own stores its function for the class, also when a parent class has
\* an entry; a Resolve of a class on which no registration call was made
\* throws the unregistered-token error; and a Resolve of a class that has an
\* entry of its own invokes no resolver but the one registered for it.
C27_TypeEntryOwnedByType ==
    \A t \in ClassTokens :
        /\ hist[t].op \in {"RegisterResolver", "RegisterSingleton"} => hist[t].wrote
        /\ (ResolveOf(t) /\ ~hist[t].touched) =>
              /\ last.out = "throw"
              /\ last.val = UnregisteredTokenError(t)
              /\ last.trace = <<>>
        /\ (ResolveOf(t) /\ OwnStored(hist[t])) =>
              \A i \in DOMAIN last.trace : last.trace[i].call = hist[t].r

\* the name tokens of the registry machine: "svc" and the name of a
\* member every Map object inherits
NameTokens == {Name("svc"), Name("toString")}

\* C28: every name never registered is absent: a RegisterResolver or
\* RegisterSingleton call on a name that has no entry of its own stores its
\* function for the name, and a Resolve of a name on which no registration
\* call was made throws the unregistered-token error and returns nothing
\* else.
C28_EveryNameIsFresh ==
    \A t \in NameTokens :
        /\ hist[t].op \in {"RegisterResolver", "RegisterSingleton"} =>
              /\ hist[t].wrote
              /\ OwnEntry(Stores, t) # Undefined
        /\ (ResolveOf(t) /\ ~hist[t].touched) =>
              /\ last.out = "throw"
              /\ last.val = UnregisteredTokenError(t)

\* C29: a parameter decorator applied to a parameter of class Y changes the
\* injector list of no other class, a parent class of Y included, so that
\* the list a Construct of a class that is not a subclass of Y finds, and
\* with it the tokens it resolves, stay what they were.
C29_InjectorSlotsPerType ==
    [][ ( /\ ops' = ops + 1
          /\ last'.op \in {"Inject", "MapInject"}
          /\ last'.target \in Constructables ) =>
            \A c \in TypeIds \ {last'.target} :
                /\ dependencyInjectors'[c] = dependencyInjectors[c]
                /\ SuperOf(c) # last'.target =>
                      ProtoInjectors(dependencyInjectors', c)
                         = ProtoInjectors(dependencyInjectors, c)
      ]_vars

----------------------------------------------------------------------------
(* Resolve-once properties read through several instances of the class.     *)

NextInstances ==
    \/ \E token \in InjectTokens :
          ops < MaxInstanceOps /\ DoDefineProperty("Lazy", token, <<>>)
    \/ \E token \in InjectTokens, map \in Maps :
          ops < MaxInstanceOps /\ DoDefineMapProperty("LazyMap", token, map, <<>>)
    \/ ops < MaxInstanceOps /\ DoNewSubject
    \/ \E i \in 1..MaxInstances, bad \in Throwers :
          ops < MaxInstanceOps /\ DoGetPropertyOf(i, bad)
    \/ \E token \in InjectTokens, r \in Resolvers :
          ops < MaxInstanceOps /\ DoOverrideResolver(token, r)

SpecInstances == InitConstruct /\ [][NextInstances]_vars

\* C30: a resolve-once property is fixed for the class that declares it:
\* after the first successful read through one instance, a read through any
\* instance of the class, the same or another, created before or after that
\* read, returns the value of the first read and makes no Resolve call, no
\* resolver invocation and no transform invocation.
C30_LazyFixedPerClass ==
    (ReadOf({"Lazy", "LazyMap"}) /\ access.late >= 1) =>
        /\ access.reader \in DOMAIN property.own
        /\ access.by \in DOMAIN property.own
        /\ last.out = "value"
        /\ last.val = access.value
        /\ last.resolved = <<>>
        /\ last.trace = <<>>
        /\ last.transformed = <<>>
        /\ property.kind = "Value"
        /\ \A i \in DOMAIN property.own : property.own[i] = NoInst

\* a read through an instance created after the first successful read,
\* which was made through another instance
C30_Witness ==
    /\ ReadOf({"Lazy", "LazyMap"})
    /\ access.late >= 1
    /\ access.reader > access.born
    /\ access.reader # access.by
    /\ last.val = access.value

----------------------------------------------------------------------------
(* Failing reads and termination *)

\* C31: a read of a resolve-once property that is still an accessor makes
\* one Resolve call; when the Resolve or the transform throws, the read
\* throws that error and the property stays the accessor it was, so the next
\* read resolves again; when the read returns, the property becomes a data
\* property holding the value, and a read of the data property makes no
\* Resolve call.
C31_LazyReplacedOnlyOnSuccess ==
    [][ (ops' = ops + 1 /\ last'.op = "Get" /\ access.decorator \in {"Lazy", "LazyMap"}) =>
          IF property.kind = "Value"
          THEN /\ last'.resolved = <<>>
               /\ last'.trace = <<>>
               /\ last'.transformed = <<>>
               /\ last'.out = "value"
               /\ last'.val = property.value
               /\ property' = property
          ELSE /\ Len(last'.resolved) = 1
               /\ last'.resolved[1].token = property.token
               /\ last'.out = last'.resolved[1].out
               /\ last'.val = last'.resolved[1].val
               /\ last'.out = "throw" =>
                     /\ property' = property
                     /\ last'.val \in {ResolverError(r) : r \in Resolvers}
                                         \cup {TransformError(m) : m \in Maps}
               /\ last'.out = "value" =>
                     property' = [property EXCEPT !.kind = "Value",
                                                  !.value = last'.val]
      ]_vars

\* the first successful read of a resolve-once property, made after a read
\* of it that threw
C31_Witness ==
    /\ ReadOf({"Lazy", "LazyMap"})
    /\ last.out = "value"
    /\ last.resolved # <<>>
    /\ access.reads >= 2
    /\ access.late = 0
    /\ access.resolves = access.reads
    /\ property.kind = "Value"
    /\ property.value = last.val

----------------------------------------------------------------------------
(* Calls in progress.  Resolve, Transform, the ResolveOnce closure and      *)
(* Construct run as a stack of activations, one step at a time, over a      *)
(* registry whose resolvers may resolve other tokens.                       *)

MaxCallOps == 3

\* the number of activations the engine's call stack holds
MaxStack == 10

\* a user supplied resolver () => Resolve(token)
Resolving(token) == [kind |-> "resolving", token |-> token]

\* what the engine throws when a call does not fit on the call stack
RangeError == [err |-> "RangeError"]

\* no result is pending
None == [out |-> "none", val |-> NoInst]

Ret(res) == [out |-> res.out, val |-> res.val]

\* the activation of Resolve(token, ...args)
ResolveFrame(token, args) == [fn |-> "Resolve", token |-> token, args |-> args]

\* the activation of Transform(token, transform, ...args)
TransformFrame(token, transform, args) ==
    [fn |-> "Transform", token |-> token, map |-> transform, args |-> args]

\* the activation of the closure of ResolveOnce(token, resolve)
OnceFrame(token, resolve, args) ==
    [fn |-> "ResolveOnce", token |-> token, resolve |-> resolve, args |-> args]

\* the activation of Construct(target, ...args): index is the slot the map
\* callback is called for next, deps are the values of the slots before it
ConstructFrame(target, args) ==
    [fn |-> "Construct", target |-> target, args |-> args, index |-> 1,
     deps |-> <<>>]

\* the calls in progress: the registry s, the activations from the outermost
\* to the innermost, and the result ret the innermost one has just received
Run(s, stack, ret) == [s |-> s, stack |-> stack, ret |-> ret]

\* the activation a stored function starts in the library when it is called;
\* None for a function that returns without calling the library
Callee(fn, args) ==
    CASE fn.kind = "construct" -> ConstructFrame(fn.target, args)
      [] fn.kind = "resolving" -> ResolveFrame(fn.token, <<>>)
      [] fn.kind = "once"      -> OnceFrame(fn.token, fn.resolve, args)
      [] OTHER                 -> None

\* the innermost activation receives the result res
Got(run, res) == [run EXCEPT !.s = res.s, !.ret = Ret(res)]

\* the innermost activation ends; the pending result goes to its caller
Pop(run) == [run EXCEPT !.stack = SubSeq(@, 1, Len(@) - 1)]

\* the innermost activation calls into the library
Enter(run, frame) ==
    IF Len(run.stack) >= MaxStack
    THEN Got(run, Thrown(run.s, RangeError))
    ELSE [run EXCEPT !.stack = Append(@, frame)]

\* the innermost activation calls the stored function fn
Apply(run, fn, args) ==
    IF Callee(fn, args) # None
    THEN Enter(run, Callee(fn, args))
    ELSE Got(run, Invoke(run.s, fn, args, {}))

\* Resolve: the lookup, then the call of the resolver or the throw
ResolveEnter(run, f) ==
    LET resolve == GetResolver(run.s, f.token)
    IN  IF resolve # Undefined
        THEN Apply(run, resolve, f.args)
        ELSE Got(run, Raised(run.s, UnregisteredTokenError(f.token)))

\* Construct: plain construction, the next slot, or the construction with
\* the values of all slots
ConstructEnter(run, f) ==
    LET injectors == ProtoInjectors(run.s.dependencyInjectors, f.target)
    IN  IF Len(f.args) > 0 \/ injectors = Undefined
        THEN Pop(Got(run, New(run.s, f.target, f.args)))
        ELSE IF f.index > Len(injectors.items)
        THEN Pop(Got(run, New(run.s, f.target, f.deps)))
        ELSE LET injector == injectors.items[f.index]
             IN  Enter(run, IF injector.map # "null"
                            THEN TransformFrame(injector.token, injector.map,
                                                injector.args)
                            ELSE ResolveFrame(injector.token, injector.args))

\* a map callback that catches what the slot threw and resolves it again
ConstructReturn_Retrying(run, f) ==
    IF run.ret.out = "throw" THEN [run EXCEPT !.ret = None]
    ELSE [run EXCEPT !.stack[Len(run.stack)] =
                        [f EXCEPT !.deps = Append(@, run.ret.val),
                                  !.index = @ + 1],
                     !.ret = None]

\* Construct receives the value of a slot, or what resolving it threw
ConstructReturn(run, f) ==
    IF run.ret.out = "throw" THEN Pop(run)
    ELSE [run EXCEPT !.stack[Len(run.stack)] =
                        [f EXCEPT !.deps = Append(@, run.ret.val),
                                  !.index = @ + 1],
                     !.ret = None]

\* the ResolveOnce closure receives what its resolver returned or threw
OnceReturn(run, f) ==
    IF run.ret.out = "throw" THEN Pop(run)
    ELSE Pop([run EXCEPT !.s = OverrideResolver(run.s, f.token,
                                                Const(run.ret.val))])

\* Transform receives what Resolve returned or threw
TransformReturn(run, f) ==
    IF run.ret.out = "throw" THEN Pop(run)
    ELSE Pop([run EXCEPT !.ret = [out |-> "value",
                                  val |-> Mapped(f.map, run.ret.val)]])

\* one step of the innermost activation
Step(run) ==
    LET f == run.stack[Len(run.stack)]
    IN  IF run.ret = None
        THEN CASE f.fn = "Resolve"     -> ResolveEnter(run, f)
               [] f.fn = "Transform"   -> Enter(run, ResolveFrame(f.token, f.args))
               [] f.fn = "ResolveOnce" -> Apply(run, f.resolve, f.args)
               [] f.fn = "Construct"   -> ConstructEnter(run, f)
        ELSE CASE f.fn = "Resolve"     -> Pop(run)
               [] f.fn = "Transform"   -> TransformReturn(run, f)
               [] f.fn = "ResolveOnce" -> OnceReturn(run, f)
               [] f.fn = "Construct"   -> ConstructReturn(run, f)

\* the dependency graph: its nodes are the tokens and the classes
Class(c) == [kind |-> "class", id |-> c]

Nodes ==
    {Name(n) : n \in NameIds} \cup {Type(c) : c \in TypeIds \cup {"String"}}
                              \cup {Class(c) : c \in TypeIds}

\* what a stored function resolves or constructs
RECURSIVE Calls(_)
Calls(fn) ==
    CASE fn.kind = "construct" -> {Class(fn.target)}
      [] fn.kind = "resolving" -> {fn.token}
      [] fn.kind = "once"      -> Calls(fn.resolve)
      [] OTHER                 -> {}

\* a token leads to what the resolver Resolve finds for it calls, a class to
\* the tokens named by the slots Construct finds for it
Edges(s, n) ==
    IF n.kind = "class"
    THEN LET injectors == ProtoInjectors(s.dependencyInjectors, n.id)
         IN  IF injectors = Undefined THEN {}
             ELSE {injectors.items[i].token : i \in DOMAIN injectors.items}
    ELSE LET resolve == GetResolver(s, n)
         IN  IF resolve = Undefined THEN {} ELSE Calls(resolve)

RECURSIVE Closure(_, _)
Closure(s, set) ==
    LET next == set \cup UNION {Edges(s, n) : n \in set}
    IN  IF next = set THEN set ELSE Closure(s, next)

Acyclic(s) == \A n \in Nodes : n \notin Closure(s, Edges(s, n))

\* the record of the call in progress, or of the last one made: the
\* activations, the pending result, how the call ended, the deepest stack it
\* had, and whether the dependency graph was acyclic when it was made
NoRun ==
    [op |-> "none", stack |-> <<>>, ret |-> None, out |-> "none",
     val |-> NoInst, deep |-> 0, acyclic |-> TRUE]

Running == last.stack # <<>>

CallTokens == {Name("svc"), Type("A"), Type("X"), Type("Y")}

\* OverrideResolver(token, () => Resolve(dep))
DoOverrideResolving(token, dep) ==
    /\ ~Running
    /\ ops' = ops + 1
    /\ CommitStores(OverrideResolver(Stores, token, Resolving(dep)))
    /\ last' = NoRun
    /\ UNCHANGED <<property, decorated, access, classDecorator, hist>>

\* @Resolvable() or @Singleton() on the class target
DoDecorate(decorator, target) ==
    /\ ~Running
    /\ ops' = ops + 1
    /\ CommitStores(IF decorator = "Resolvable"
                    THEN Resolvable(Stores, Undefined, target)
                    ELSE Singleton(Stores, Undefined, target))
    /\ last' = NoRun
    /\ UNCHANGED <<property, decorated, access, classDecorator, hist>>

\* @Inject(token) or @MapInject(token, map) on a constructor parameter
DoAnnotate(token, map, target, parameterIndex) ==
    /\ ~Running
    /\ ops' = ops + 1
    /\ CommitStores(IF map = "null"
                    THEN Inject(Stores, token, <<>>, target, parameterIndex)
                    ELSE MapInject(Stores, token, map, <<>>, target,
                                   parameterIndex))
    /\ last' = NoRun
    /\ UNCHANGED <<property, decorated, access, classDecorator, hist>>

\* the program calls Resolve(token, ...args) or Construct(target, ...args)
Enters(op, frame) ==
    /\ ~Running
    /\ ops' = ops + 1
    /\ last' = [NoRun EXCEPT !.op = op, !.stack = <<frame>>, !.deep = 1,
                             !.acyclic = Acyclic(Stores)]
    /\ UNCHANGED <<resolvers, dependencyResolver, dependencyInjectors,
                   externalName, property, decorated, access, classDecorator,
                   nextId, hist>>

DoEnterResolve(token, args) == Enters("Resolve", ResolveFrame(token, args))

DoEnterConstruct(target, args) == Enters("Construct", ConstructFrame(target, args))

\* the engine runs the innermost activation one step further
DoStep ==
    /\ Running
    /\ LET run == Step(Run(Stores, last.stack, last.ret))
           done == run.stack = <<>>
       IN  /\ CommitStores(run.s)
           /\ last' = [last EXCEPT
                          !.stack = run.stack,
                          !.ret = IF done THEN None ELSE run.ret,
                          !.out = IF done THEN run.ret.out ELSE @,
                          !.val = IF done THEN run.ret.val ELSE @,
                          !.deep = IF Len(run.stack) > @ THEN Len(run.stack) ELSE @]
    /\ UNCHANGED <<property, decorated, access, classDecorator, ops, hist>>

InitCalls ==
    /\ resolvers = RegisteredStores.resolvers
    /\ dependencyResolver = RegisteredStores.dependencyResolver
    /\ dependencyInjectors = RegisteredStores.dependencyInjectors
    /\ externalName = RegisteredStores.externalName
    /\ property = Undefined
    /\ decorated = [c \in Constructables |-> [i \in 0..1 |-> Undefined]]
    /\ access = NoAccess
    /\ classDecorator = [c \in Constructables |-> "none"]
    /\ nextId = RegisteredStores.nextId
    /\ ops = 0
    /\ last = NoRun
    /\ hist = [t \in RegTokens |-> NoHist]

NextCalls ==
    \/ \E dep \in CallTokens :
          ops < MaxCallOps /\ DoOverrideResolving(Name("svc"), dep)
    \/ \E decorator \in {"Resolvable", "Singleton"}, target \in Constructables :
          ops < MaxCallOps /\ DoDecorate(decorator, target)
    \/ \E token \in {Name("svc"), Type("Y")}, target \in Constructables,
          parameterIndex \in 0..1 :
          ops < MaxCallOps /\ DoAnnotate(token, "null", target, parameterIndex)
    \/ \E map \in Maps, parameterIndex \in 0..1 :
          ops < MaxCallOps /\ DoAnnotate(Name("svc"), map, "X", parameterIndex)
    \/ \E token \in CallTokens :
          ops < MaxCallOps /\ DoEnterResolve(token, <<>>)
    \/ \E target \in Constructables, args \in ArgLists :
          ops < MaxCallOps /\ DoEnterConstruct(target, args)
    \/ DoStep

\* the engine runs a call that is in progress until it ends
SpecCalls == InitCalls /\ [][NextCalls]_vars /\ WF_vars(DoStep)

\* C32: a Resolve or Construct call made while the dependency graph is
\* acyclic ends, by returning a value or throwing an error, and not by
\* exhausting the call stack.
C32_AcyclicCallsTerminate ==
    (Running /\ Acyclic(Stores)) ~>
        (~Running /\ last.out \in {"value", "throw"} /\ last.val # RangeError)

\* a Resolve call on an acyclic graph that returned after it constructed a
\* class whose slots it resolved
C32_Witness ==
    /\ last.op = "Resolve"
    /\ ~Running
    /\ last.acyclic
    /\ last.out = "value"
    /\ last.deep >= 4

====
